---- MODULE Spec2Model ----
(***************************************************************************)
(* VidSnapAI: the reel worker (generate_process.py) and the upload handler *)
(* (main.py).  The worker polls user_uploads/, skips the folders listed in *)
(* done.txt, turns desc.txt into audio.mp3 (text_to_audio), encodes the     *)
(* reel with ffmpeg (create_reel) and appends the folder name to done.txt. *)
(*                                                                         *)
(* Names of folders and the content of done.txt are sequences of           *)
(* one-character strings, so that readlines(), strip() and a partially     *)
(* written line are computed character by character.                       *)
(***************************************************************************)
EXTENDS Integers, Sequences, FiniteSets, TLC

\* ------------------------------------------------------------------ bounds
\* Number of job folders that exist under user_uploads/.
MaxJobs == 2
\* Number of manifest entries a folder's input.txt may hold.
MaxManifest == 1

\* -------------------------------------------------------------- characters
NL == "\n"
\* A character that str.strip() removes and that /bin/sh does not split a
\* word at (form feed; also \v, \x1c..\x1f, U+00A0 ...).
FF == "\f"
Whitespace == {NL, FF, " "}

\* Folder names the upload handler can be asked to create (request.form
\* "uuid" is used verbatim).
Ids == { <<"a">>, <<"b">>, <<"a", FF>> }

\* Description texts; "" is the empty description.
Descs == {"", "hello"}
\* request.form.get("text") is None when the field is missing.
NoText == "<None>"
\* No call of text_to_speech_file yet.
NoCall == "<no call>"
FileNames == {"1.png"}
\* desc.txt does not exist.
NoFile == "<no file>"

\* File names as the browser sends them, in pieces: an upper-case extension,
\* a path that climbs out of the folder, a type that is not allowed, and the
\* empty name of a file field left empty.
RawNames ==
    { <<"1", ".", "png">>, <<"2", ".", "PNG">>, <<"..", "/", "1", ".", "png">>,
      <<"x", ".", "txt">>, <<>> }
\* Number of file fields of one request.
MaxFiles == 2
\* Number of manifest entries of a folder when requests carry several files.
MaxLines == 3

VARIABLES
    dirs,          \* names of the folders under user_uploads/
    descTxt,       \* content of user_uploads/<id>/desc.txt
    images,        \* image files stored in user_uploads/<id>/
    inputTxt,      \* entries of user_uploads/<id>/input.txt, in file order
    req,           \* the upload request the handler is working on
    audio,         \* user_uploads/<id>/audio.mp3 exists
    reels,         \* static/reels/<id>.mp4: "none", "partial" or "full"
    doneTxt,       \* content of done.txt
    pc,            \* position of the worker
    done_folders,  \* the worker's list read from done.txt
    folders,       \* the worker's os.listdir result
    i,             \* index in folders of the for loop
    cause,         \* why the worker stopped, and at which folder
    ledgerRead,    \* history: ids that were complete lines of done.txt at the scan's read
    recorded,      \* history: ids whose append to done.txt completed
    calledWith,    \* history: the text of the latest call of text_to_speech_file
    log            \* history: what the worker did since the scan's read of done.txt

fsVars == <<dirs, descTxt, images, inputTxt, req>>
mediaVars == <<audio, reels>>
workerVars == <<pc, done_folders, folders, i, cause>>
histVars == <<ledgerRead, recorded, calledWith, log>>
vars == <<fsVars, mediaVars, doneTxt, workerVars, histVars>>

\* ------------------------------------------------------------ pure helpers
Range(s) == { s[k] : k \in 1..Len(s) }

\* Index of the first "\n" of s, 0 when there is none.
FirstNL(s) ==
    IF \E k \in 1..Len(s) : s[k] = NL
    THEN CHOOSE k \in 1..Len(s) : s[k] = NL /\ \A j \in 1..(k-1) : s[j] # NL
    ELSE 0

\* f.readlines(): the lines of the file, each with its "\n"; a last line
\* without "\n" is a line too.
RECURSIVE ReadLines(_)
ReadLines(s) ==
    IF s = <<>> THEN <<>>
    ELSE LET k == FirstNL(s) IN
         IF k = 0 THEN <<s>>
         ELSE <<SubSeq(s, 1, k)>> \o ReadLines(SubSeq(s, k + 1, Len(s)))

RECURSIVE LStrip(_)
LStrip(s) ==
    IF s # <<>> /\ Head(s) \in Whitespace THEN LStrip(Tail(s)) ELSE s

RECURSIVE RStrip(_)
RStrip(s) ==
    IF s # <<>> /\ s[Len(s)] \in Whitespace
    THEN RStrip(SubSeq(s, 1, Len(s) - 1)) ELSE s

\* str.strip()
Strip(s) == LStrip(RStrip(s))

\* done_folders = [f.strip() for f in f.readlines()]
ParseLedger(file) ==
    LET ls == ReadLines(file) IN [k \in 1..Len(ls) |-> Strip(ls[k])]

\* The ids that are newline-terminated lines of the file, verbatim.
LedgerEntries(file) ==
    LET ls == ReadLines(file) IN
    { SubSeq(ls[k], 1, Len(ls[k]) - 1) :
        k \in { j \in 1..Len(ls) : ls[j][Len(ls[j])] = NL } }

\* The text after the last "\n" of the file (<<>> when the file ends in "\n").
TruncatedTail(file) ==
    LET ls == ReadLines(file) IN
    IF ls # <<>> /\ ls[Len(ls)][Len(ls[Len(ls)])] # NL THEN ls[Len(ls)] ELSE <<>>

\* folder + "\n"
LedgerLine(folder) == Append(folder, NL)

\* What a write of `line` leaves in the file when it is cut short.
TornPrefixes(line) == { SubSeq(line, 1, k) : k \in 0..(Len(line) - 1) }

\* All orders in which os.listdir may return the entries.
Orders(S) ==
    { s \in [1..Cardinality(S) -> S] : \A x \in S : \E k \in 1..Cardinality(S) : s[k] = x }

\* No upload request is being handled.
NoReq == [phase |-> "idle"]

\* An entry of the worker's history.
Event(ev, job) == [ev |-> ev, job |-> job]

\* The worker runs; or it stopped, for `why`, while it was at folder `job`.
NoJob == <<>>
Running == [why |-> "running", job |-> NoJob]

\* ------------------------------------------------------------------- Init
Init ==
    /\ dirs = {}
    /\ descTxt = [id \in Ids |-> NoFile]
    /\ images = [id \in Ids |-> {}]
    /\ inputTxt = [id \in Ids |-> <<>>]
    /\ req = NoReq
    /\ audio = [id \in Ids |-> FALSE]
    /\ reels = [id \in Ids |-> "none"]
    /\ doneTxt = <<>>
    /\ pc = "read_ledger"
    /\ done_folders = <<>>
    /\ folders = <<>>
    /\ i = 1
    /\ cause = Running
    /\ ledgerRead = {}
    /\ recorded = {}
    /\ calledWith = NoCall
    /\ log = <<>>

\* ---------------------------------------------------- upload handler (main.py)
\* desc if desc is not None else ""
DescToWrite(desc) == IF desc = NoText THEN "" ELSE desc

\* POST /create with form uuid = rec_id, text = desc and the allowed image
\* files `files` (names after secure_filename), in request order.
Create(rec_id, desc, files) ==
    /\ files # <<>>
    /\ Cardinality(dirs \cup {rec_id}) <= MaxJobs
    /\ Len(inputTxt[rec_id]) + Len(files) <= MaxManifest
    /\ dirs' = dirs \cup {rec_id}
    /\ images' = [images EXCEPT ![rec_id] = @ \cup Range(files)]
    /\ descTxt' = [descTxt EXCEPT ![rec_id] = DescToWrite(desc)]
    /\ inputTxt' = [inputTxt EXCEPT ![rec_id] = @ \o files]
    /\ UNCHANGED <<req, mediaVars, doneTxt, workerVars, histVars>>

\* ALLOWED_EXTENSIONS
ALLOWED_EXTENSIONS == {"png", "jpg", "jpeg"}

\* str.lower(), for the pieces in use.
Lower(piece) == IF piece = "PNG" THEN "png" ELSE piece

RECURSIVE Join(_)
Join(pieces) == IF pieces = <<>> THEN "" ELSE Head(pieces) \o Join(Tail(pieces))

\* Index of the last "." of the name, 0 when there is none.
LastDot(filename) ==
    IF \E k \in 1..Len(filename) : filename[k] = "."
    THEN CHOOSE k \in 1..Len(filename) :
            filename[k] = "." /\ \A j \in (k+1)..Len(filename) : filename[j] # "."
    ELSE 0

\* '.' in filename and filename.rsplit('.', 1)[1].lower() in ALLOWED_EXTENSIONS
allowed_file(filename) ==
    /\ LastDot(filename) # 0
    /\ Lower(Join(SubSeq(filename, LastDot(filename) + 1, Len(filename))))
           \in ALLOWED_EXTENSIONS

\* werkzeug's secure_filename: path separators become "_" and leading dots
\* and underscores are stripped, so what climbs out of the folder is dropped.
RECURSIVE StripLead(_)
StripLead(pieces) ==
    IF pieces # <<>> /\ Head(pieces) \in {"..", ".", "/"}
    THEN StripLead(Tail(pieces)) ELSE pieces

secure_filename(filename) == Join(StripLead(filename))

\* if file and file.filename and allowed_file(file.filename)
Accepted(file) == file # <<>> /\ allowed_file(file)

\* The names the handler stores for the files of a request, in request order.
RECURSIVE InputFiles(_)
InputFiles(files) ==
    IF files = <<>> THEN <<>>
    ELSE IF Accepted(Head(files))
         THEN <<secure_filename(Head(files))>> \o InputFiles(Tail(files))
         ELSE InputFiles(Tail(files))

\* The handler, statement by statement.  POST /create arrives with form
\* uuid = rec_id, text = desc and the file fields `files` (raw names, in
\* request order).  base is the length of input.txt at that moment.
Post(rec_id, desc, files) ==
    /\ req = NoReq
    /\ req' = [phase |-> "files", rec_id |-> rec_id, desc |-> desc, files |-> files,
               k |-> 1, input_files |-> <<>>, m |-> 1,
               base |-> Len(inputTxt[rec_id])]
    /\ UNCHANGED <<dirs, descTxt, images, inputTxt, mediaVars, doneTxt, workerVars, histVars>>

\* for key, value in request.files.items(): a file that is not accepted is
\* skipped; an accepted one is stored (os.mkdir when the folder is new,
\* file.save) and its name is appended to input_files.
ForFile ==
    /\ req.phase = "files"
    /\ IF req.k > Len(req.files)
       THEN /\ req' = [req EXCEPT !.phase = "manifest"]
            /\ UNCHANGED <<dirs, images>>
       ELSE IF Accepted(req.files[req.k])
       THEN LET filename == secure_filename(req.files[req.k]) IN
            /\ dirs' = dirs \cup {req.rec_id}
            /\ images' = [images EXCEPT ![req.rec_id] = @ \cup {filename}]
            /\ req' = [req EXCEPT !.input_files = Append(@, filename), !.phase = "desc"]
       ELSE /\ req' = [req EXCEPT !.k = @ + 1]
            /\ UNCHANGED <<dirs, images>>
    /\ UNCHANGED <<descTxt, inputTxt, mediaVars, doneTxt, workerVars, histVars>>

\* with open(.../desc.txt, "w") as f: f.write(desc if desc is not None else "")
WriteDesc ==
    /\ req.phase = "desc"
    /\ descTxt' = [descTxt EXCEPT ![req.rec_id] = DescToWrite(req.desc)]
    /\ req' = [req EXCEPT !.phase = "files", !.k = @ + 1]
    /\ UNCHANGED <<dirs, images, inputTxt, mediaVars, doneTxt, workerVars, histVars>>

\* A bug ManifestEntry could have: the names are written last first.
ManifestEntry_reversed(input_files, m) == input_files[Len(input_files) + 1 - m]

\* The m-th entry written to input.txt: for fl in input_files.
ManifestEntry(input_files, m) == input_files[m]

\* for fl in input_files: open(.../input.txt, "a"), write the entry of fl
WriteManifest ==
    /\ req.phase = "manifest"
    /\ IF req.m > Len(req.input_files)
       THEN /\ req' = [req EXCEPT !.phase = "respond"]
            /\ UNCHANGED inputTxt
       ELSE /\ inputTxt' = [inputTxt EXCEPT ![req.rec_id] =
                                Append(@, ManifestEntry(req.input_files, req.m))]
            /\ req' = [req EXCEPT !.m = @ + 1]
    /\ UNCHANGED <<dirs, descTxt, images, mediaVars, doneTxt, workerVars, histVars>>

\* return render_template("create.html", myid=myid)
Respond ==
    /\ req.phase = "respond"
    /\ req' = NoReq
    /\ UNCHANGED <<dirs, descTxt, images, inputTxt, mediaVars, doneTxt, workerVars, histVars>>

\* ------------------------------------------- worker (generate_process.py)
folder == folders[i]

\* The process ends (uncaught exception, or killed): its variables are gone.
Die(why, job) ==
    /\ pc' = "dead"
    /\ cause' = [why |-> why, job |-> job]
    /\ done_folders' = <<>>
    /\ folders' = <<>>
    /\ i' = 1

\* A bug ReadLedger could have: the read tidies done.txt up and drops an
\* unterminated last line from the file.
ReadLedger_tidies ==
    /\ pc = "read_ledger"
    /\ doneTxt' = SubSeq(doneTxt, 1, Len(doneTxt) - Len(TruncatedTail(doneTxt)))
    /\ done_folders' = ParseLedger(doneTxt')
    /\ ledgerRead' = LedgerEntries(doneTxt')
    /\ log' = <<>>
    /\ pc' = "listdir"
    /\ UNCHANGED <<fsVars, mediaVars, folders, i, cause, recorded, calledWith>>

\* with open("done.txt") ...: done_folders = [f.strip() for f in f.readlines()]
ReadLedger ==
    /\ pc = "read_ledger"
    /\ done_folders' = ParseLedger(doneTxt)
    /\ ledgerRead' = LedgerEntries(doneTxt)
    /\ log' = <<>>
    /\ pc' = "listdir"
    /\ UNCHANGED <<fsVars, mediaVars, doneTxt, folders, i, cause, recorded, calledWith>>

\* folders = os.listdir("user_uploads")
ListDir ==
    /\ pc = "listdir"
    /\ \E order \in Orders(dirs) : folders' = order
    /\ i' = 1
    /\ pc' = "for"
    /\ UNCHANGED <<fsVars, mediaVars, doneTxt, done_folders, cause, histVars>>

\* A bug ListDirFails could have: the error is swallowed and the scan goes on
\* with the list of the previous scan.
ListDirFails_swallowed ==
    /\ pc = "listdir"
    /\ pc' = "for"
    /\ i' = 1
    /\ log' = Append(log, Event("listdir_failed", NoJob))
    /\ UNCHANGED <<fsVars, mediaVars, doneTxt, done_folders, folders, cause,
                   ledgerRead, recorded, calledWith>>

\* os.listdir("user_uploads") raises (the directory is missing or
\* unreadable): the exception is not caught.
ListDirFails ==
    /\ pc = "listdir"
    /\ Die("listdir", NoJob)
    /\ log' = Append(log, Event("listdir_failed", NoJob))
    /\ UNCHANGED <<fsVars, mediaVars, doneTxt, ledgerRead, recorded, calledWith>>

\* if (folder not in done_folders):
NotDone(f, done) == f \notin Range(done)

\* for folder in folders: ... ; after the last folder, time.sleep(5)
ForFolder ==
    /\ pc = "for"
    /\ IF i > Len(folders) THEN pc' = "sleep" /\ i' = i
       ELSE IF NotDone(folder, done_folders) THEN pc' = "text_to_audio" /\ i' = i
       ELSE pc' = "for" /\ i' = i + 1
    /\ UNCHANGED <<fsVars, mediaVars, doneTxt, done_folders, folders, cause, histVars>>

\* The speech provider: it writes audio.mp3 and returns, or it raises.
text_to_speech_file(text, ok) ==
    IF ok
    THEN /\ audio' = [audio EXCEPT ![folder] = TRUE]
         /\ pc' = "create_reel"
         /\ log' = log \o <<Event("synth", folder), Event("synth_ok", folder)>>
         /\ UNCHANGED <<done_folders, folders, i, cause>>
    ELSE /\ Die("synthesis", folder)
         /\ log' = Append(log, Event("synth", folder))
         /\ UNCHANGED audio

\* A bug text_to_audio could have: when the provider raises, the call is
\* made again.
text_to_audio_retries ==
    /\ pc = "text_to_audio"
    /\ descTxt[folder] # NoFile
    /\ calledWith' = descTxt[folder]
    /\ \/ text_to_speech_file(descTxt[folder], TRUE)
       \/ /\ log' = Append(log, Event("synth", folder))
          /\ UNCHANGED <<audio, pc, done_folders, folders, i, cause>>
    /\ UNCHANGED <<fsVars, reels, doneTxt, ledgerRead, recorded>>

\* text_to_audio(folder): read desc.txt, call the provider with the text.
\* open() raises FileNotFoundError when desc.txt is not there yet.
text_to_audio ==
    /\ pc = "text_to_audio"
    /\ IF descTxt[folder] = NoFile
       THEN /\ Die("no desc.txt", folder)
            /\ UNCHANGED <<audio, calledWith, log>>
       ELSE LET text == descTxt[folder] IN
            /\ calledWith' = text
            /\ \E ok \in BOOLEAN : text_to_speech_file(text, ok)
    /\ UNCHANGED <<fsVars, reels, doneTxt, ledgerRead, recorded>>

\* create_reel(folder), first part: ffmpeg starts.  Without -y it does not
\* replace an existing static/reels/<folder>.mp4 and exits non-zero; it can
\* also fail before it opens its output.  Otherwise it starts to write the
\* output file at its final path.  ffmpeg reads input.txt, the files it
\* names and audio.mp3: when one of them is missing it exits non-zero.
create_reel ==
    /\ pc = "create_reel"
    /\ \/ /\ reels[folder] = "none"
          /\ audio[folder]
          /\ inputTxt[folder] # <<>>
          /\ Range(inputTxt[folder]) \subseteq images[folder]
          /\ reels' = [reels EXCEPT ![folder] = "partial"]
          /\ pc' = "ffmpeg"
          /\ UNCHANGED <<done_folders, folders, i, cause>>
       \/ /\ Die("assembly", folder)
          /\ UNCHANGED reels
    /\ log' = Append(log, Event("asm", folder))
    /\ UNCHANGED <<fsVars, audio, doneTxt, ledgerRead, recorded, calledWith>>

\* A bug ffmpeg_exit could have: check=True is missing, so a non-zero exit of
\* ffmpeg goes unnoticed and the loop goes on to the append.
ffmpeg_exit_unchecked ==
    /\ pc = "ffmpeg"
    /\ \/ /\ reels' = [reels EXCEPT ![folder] = "full"]
          /\ log' = Append(log, Event("asm_ok", folder))
       \/ UNCHANGED <<reels, log>>
    /\ pc' = "record"
    /\ UNCHANGED <<fsVars, audio, doneTxt, done_folders, folders, i, cause,
                   ledgerRead, recorded, calledWith>>

\* create_reel(folder), second part: ffmpeg ends.  check=True raises
\* CalledProcessError on a non-zero exit; the file written so far stays.
ffmpeg_exit ==
    /\ pc = "ffmpeg"
    /\ \/ /\ reels' = [reels EXCEPT ![folder] = "full"]
          /\ pc' = "record"
          /\ log' = Append(log, Event("asm_ok", folder))
          /\ UNCHANGED <<done_folders, folders, i, cause>>
       \/ /\ Die("assembly", folder)
          /\ UNCHANGED <<reels, log>>
    /\ UNCHANGED <<fsVars, audio, doneTxt, ledgerRead, recorded, calledWith>>

\* A bug Record could have: after the append the loop passes over the next
\* folder of the list.
Record_skips_next ==
    /\ pc = "record"
    /\ doneTxt' = doneTxt \o LedgerLine(folder)
    /\ recorded' = recorded \cup {folder}
    /\ log' = Append(log, Event("append", folder))
    /\ i' = i + 2
    /\ pc' = "for"
    /\ UNCHANGED <<fsVars, mediaVars, done_folders, folders, cause, ledgerRead, calledWith>>

\* with open("done.txt", "a") as f: f.write(folder + "\n")
Record ==
    /\ pc = "record"
    /\ doneTxt' = doneTxt \o LedgerLine(folder)
    /\ recorded' = recorded \cup {folder}
    /\ log' = Append(log, Event("append", folder))
    /\ i' = i + 1
    /\ pc' = "for"
    /\ UNCHANGED <<fsVars, mediaVars, done_folders, folders, cause, ledgerRead, calledWith>>

\* The append fails (disk full, I/O error): OSError, with part of the line
\* possibly written.
RecordFails ==
    /\ pc = "record"
    /\ \E part \in TornPrefixes(LedgerLine(folder)) : doneTxt' = doneTxt \o part
    /\ Die("ledger", folder)
    /\ log' = Append(log, Event("append_cut", folder))
    /\ UNCHANGED <<fsVars, mediaVars, ledgerRead, recorded, calledWith>>

\* time.sleep(5), then the next iteration of while True
Sleep ==
    /\ pc = "sleep"
    /\ pc' = "read_ledger"
    /\ UNCHANGED <<fsVars, mediaVars, doneTxt, done_folders, folders, i, cause, histVars>>

\* ------------------------------------------------------------ environment
InStage == pc \in {"text_to_audio", "create_reel", "ffmpeg"}

\* The process is killed.  Killed during the append, part of the line may be
\* in the file; killed during a stage, the job was interrupted.
Kill ==
    /\ pc # "dead"
    /\ IF pc = "record"
       THEN /\ \E part \in TornPrefixes(LedgerLine(folder)) : doneTxt' = doneTxt \o part
            /\ Die("killed in record", folder)
            /\ log' = Append(log, Event("append_cut", folder))
       ELSE /\ doneTxt' = doneTxt
            /\ IF InStage THEN Die("interrupted", folder) ELSE Die("killed", NoJob)
            /\ log' = log
    /\ UNCHANGED <<fsVars, mediaVars, ledgerRead, recorded, calledWith>>

\* python generate_process.py is run again.
Restart ==
    /\ pc = "dead"
    /\ pc' = "read_ledger"
    /\ cause' = Running
    /\ log' = <<>>
    /\ UNCHANGED <<fsVars, mediaVars, doneTxt, done_folders, folders, i,
                   ledgerRead, recorded, calledWith>>

Upload ==
    \E rec_id \in Ids, desc \in Descs \cup {NoText}, f \in FileNames :
        Create(rec_id, desc, <<f>>)

Next ==
    \/ Upload
    \/ ReadLedger
    \/ ListDir
    \/ ListDirFails
    \/ ForFolder
    \/ text_to_audio
    \/ create_reel
    \/ ffmpeg_exit
    \/ Record
    \/ RecordFails
    \/ Sleep
    \/ Kill
    \/ Restart

Spec == Init /\ [][Next]_vars

\* The handler alone, with requests of up to MaxFiles file fields.
\* The folder names of the requests.
UploadIds == { <<"a">> }

RequestFiles == UNION { [1..n -> RawNames] : n \in 0..MaxFiles }

PostUpload ==
    \E rec_id \in UploadIds, desc \in Descs \cup {NoText}, files \in RequestFiles :
        /\ req = NoReq
        /\ Cardinality(dirs \cup {rec_id}) <= MaxJobs
        /\ Len(inputTxt[rec_id]) + Len(InputFiles(files)) <= MaxLines
        /\ Post(rec_id, desc, files)

NextUpload ==
    \/ PostUpload
    \/ ForFile
    \/ WriteDesc
    \/ WriteManifest
    \/ Respond

SpecUpload == Init /\ [][NextUpload]_vars

\* The handler and the worker side by side: the worker scans while a request
\* is being handled.
PostRace ==
    \E rec_id \in UploadIds, desc \in Descs \cup {NoText}, f \in RawNames :
        /\ req = NoReq
        /\ Cardinality(dirs \cup {rec_id}) <= MaxJobs
        /\ Len(inputTxt[rec_id]) + Len(InputFiles(<<f>>)) <= MaxManifest
        /\ Post(rec_id, desc, <<f>>)

NextRace ==
    \/ PostRace
    \/ ForFile
    \/ WriteDesc
    \/ WriteManifest
    \/ Respond
    \/ ReadLedger
    \/ ListDir
    \/ ListDirFails
    \/ ForFolder
    \/ text_to_audio
    \/ create_reel
    \/ ffmpeg_exit
    \/ Record
    \/ RecordFails
    \/ Sleep
    \/ Kill
    \/ Restart

SpecRace == Init /\ [][NextRace]_vars

\* The worker left alone: nobody kills it, user_uploads/ can be listed, and
\* nobody starts it again.  A step of the worker that can be taken is taken.
WorkerStep ==
    \/ ReadLedger
    \/ ListDir
    \/ ForFolder
    \/ text_to_audio
    \/ create_reel
    \/ ffmpeg_exit
    \/ Record
    \/ RecordFails
    \/ Sleep

NextLive ==
    \/ Upload
    \/ WorkerStep

SpecLive == Init /\ [][NextLive]_vars /\ WF_vars(WorkerStep)

\* The worker under a supervisor: nobody kills it, user_uploads/ can be
\* listed, and whenever the worker has stopped it is started again.
NextSupervised ==
    \/ Upload
    \/ WorkerStep
    \/ Restart

SpecSupervised ==
    Init /\ [][NextSupervised]_vars /\ WF_vars(WorkerStep) /\ WF_vars(Restart)

\* ------------------------------------------------------------ properties
\* The worker's membership test, applied to the current content of done.txt.
ReadAsPresent(id) == ~NotDone(id, ParseLedger(doneTxt))

\* A stage has been invoked for the current folder in the current scan.
StageInvoked == pc \in {"create_reel", "ffmpeg", "record"}

\* C1 (idempotency): a scan invokes no stage for a job id that was an entry
\* of done.txt when the scan read it.
C1_Idempotency == StageInvoked => folder \notin ledgerRead

\* C2 (crash safety): when the worker was killed while it processed a job,
\* that job is not read back as present unless its reel is completely written.
C2_CrashSafety ==
    (pc = "dead" /\ cause.why \in {"interrupted", "killed in record"})
        => (ReadAsPresent(cause.job) => reels[cause.job] = "full")

\* C3 (ledger invariant): in every state, an id is an entry of done.txt if
\* and only if its reel is completely written.
C3_LedgerIffOutput ==
    /\ \A e \in LedgerEntries(doneTxt) : e \in Ids /\ reels[e] = "full"
    /\ \A id \in Ids : reels[id] = "full" => id \in LedgerEntries(doneTxt)

\* C4 (no false completion): when a stage failed or was interrupted for a
\* job, the job is absent from the ledger afterwards.  Stated for the failures
\* the worker's own code decides: ffmpeg's exit status and the kill.
C4_NoFalseCompletion ==
    (pc = "dead" /\ cause.why \in {"assembly", "interrupted"})
        => ~ReadAsPresent(cause.job)

\* C5 (rename on success): no partially written file is ever at the final
\* output path static/reels/<id>.mp4.
C5_NoPartialOutput == \A id \in Ids : reels[id] # "partial"

\* C6 (failure containment): the failure of a stage for one job never ends
\* the scan or the loop.  Stated for Assembly, whose failure the worker's own
\* code decides (check=True); a provider that raises ends the loop alike.
C6_StageFailureContained == pc = "dead" => cause.why # "assembly"

\* The content of done.txt up to and including its last "\n".
CompleteLines(file) == SubSeq(file, 1, Len(file) - Len(TruncatedTail(file)))

\* C7 (truncated record is absent): a job whose id equals the unterminated
\* last line of done.txt, and is in no terminated line, is not treated as done.
C7_TruncatedLineAbsent ==
    \A id \in dirs :
        (TruncatedTail(doneTxt) = id /\ NotDone(id, ParseLedger(CompleteLines(doneTxt))))
            => ~ReadAsPresent(id)

\* C8 (contains/record): the membership test is true for exactly the ids
\* whose append to done.txt completed.
C8_ContainsIffRecorded ==
    \A id \in Ids : ReadAsPresent(id) <=> id \in recorded

\* C9 (ledger failure is fatal for the job only): a failed append to done.txt
\* never ends the scan or the loop.
C9_LedgerFailureContained == pc = "dead" => cause.why # "ledger"

\* C10 (empty description): text_to_speech_file is never called with an
\* empty text.
C10_EmptyTextNotSent == calledWith # ""

\* C11 (empty description is never recorded): a job whose description is empty
\* is not present in the ledger.  Stated for a job that no scan has assembled,
\* with the provider last called with a non-empty text, so that the answer
\* does not rest on what the provider does with an empty text.
C11_EmptyJobNeverPresent ==
    \A id \in dirs :
        (descTxt[id] = "" /\ reels[id] = "none" /\ calledWith \notin {"", NoCall})
            => ~ReadAsPresent(id)

\* C13 (success path): after the append for a job completed, its id is an
\* entry of done.txt and its reel is completely written.
C13_SuccessPath ==
    \A k \in 1..Len(log) :
        log[k].ev = "append"
            => (log[k].job \in LedgerEntries(doneTxt) /\ reels[log[k].job] = "full")

\* C14 (job validation): a stage is invoked only for a folder with a
\* non-empty description and at least one image.
C14_OnlyValidJobsProcessed ==
    \A k \in 1..Len(log) :
        log[k].ev = "synth"
            => (descTxt[log[k].job] # "" /\ images[log[k].job] # {})

\* C15 (Assembly is idempotent on overwrite): Assembly does not fail for a
\* job whose completely written reel already exists.
C15_RetryOverExistingOutput ==
    (pc = "dead" /\ cause.why = "assembly") => reels[cause.job] # "full"

\* Characters of a validated folder name (those of a uuid).
SafeChars == {"a", "b", "-"}
SafeName(name) == \A k \in 1..Len(name) : name[k] \in SafeChars

\* C17 (no unsanitized id in the encoder command): ffmpeg is started only
\* with a folder name made of validated characters.
C17_EncoderGetsSafeNames ==
    \A k \in 1..Len(log) : log[k].ev = "asm" => SafeName(log[k].job)

\* The worker's step completed an append to done.txt.
AppendStep == log' # log /\ log' # <<>> /\ log'[Len(log')].ev = "append"

\* C19 (append-only ledger): an entry of done.txt stays one, the old content
\* is never rewritten, and each completed record step adds exactly one line,
\* which is the job id and "\n".
C19_AppendOnly ==
    [][ /\ LedgerEntries(doneTxt) \subseteq LedgerEntries(doneTxt')
        /\ Len(doneTxt') >= Len(doneTxt)
        /\ SubSeq(doneTxt', 1, Len(doneTxt)) = doneTxt
        /\ AppendStep =>
             ReadLines(doneTxt') =
                 Append(ReadLines(doneTxt), LedgerLine(log'[Len(log')].job)) ]_vars

\* C18 (root enumeration failure): when os.listdir fails, the process ends
\* with that error, and the scan has invoked no stage and written nothing to
\* done.txt.
C18_RootFailureIsFatal ==
    (\E k \in 1..Len(log) : log[k].ev = "listdir_failed")
        => (pc = "dead" /\ cause.why = "listdir" /\ Len(log) = 1)

\* C18 happens: os.listdir failed in a scan that follows completed work.
C18_Witness == pc = "dead" /\ cause.why = "listdir" /\ recorded # {} /\ dirs # {}

Written ==
    SubSeq(inputTxt[req.rec_id], req.base + 1, Len(inputTxt[req.rec_id]))

\* C12 (order preservation): the entries a request adds to input.txt are the
\* stored names of its accepted files, in the order of the request: none
\* before the manifest loop, the first m-1 of them inside it, all of them at
\* the response.  create_reel hands input.txt itself to ffmpeg.
C12_OrderPreserved ==
    req.phase # "idle" =>
        /\ req.phase \in {"files", "desc"} => Written = <<>>
        /\ req.phase = "manifest" => Written = SubSeq(InputFiles(req.files), 1, req.m - 1)
        /\ req.phase = "respond" => Written = InputFiles(req.files)

\* A second request for a folder has stored two images, the later name first.
C12_Witness ==
    /\ req.phase = "respond"
    /\ req.base = 1
    /\ Written = <<"2.PNG", "1.png">>

\* C16 (assembly precondition): ffmpeg is never started for a job whose
\* input.txt has no entry or whose audio.mp3 does not exist.
C16_AssemblyPrecondition ==
    \A k \in 1..Len(log) :
        log[k].ev = "asm" => (inputTxt[log[k].job] # <<>> /\ audio[log[k].job])

\* The jobs for which the scan has called text_to_audio.
Processed == { log[k].job : k \in { j \in 1..Len(log) : log[j].ev = "synth" } }

\* The worker is inside the for loop of a scan, or at its sleep.
InScan == pc \in {"for", "text_to_audio", "create_reel", "ffmpeg", "record", "sleep"}

\* C21 (Scan Set): the jobs a scan processes are the enumerated folders that
\* were not entries of done.txt when the scan read it: no entry is processed,
\* and no enumerated folder that is not an entry is passed over.
C21_ScanSetIsDifference ==
    InScan =>
        /\ Processed \subseteq Range(folders) \ ledgerRead
        /\ \A j \in 1..Len(folders) :
              (j < i /\ folders[j] \notin ledgerRead) => folders[j] \in Processed

\* What done.txt held when the scan read it: its content without the lines
\* the scan itself has appended since.
RECURSIVE AppendedBy(_)
AppendedBy(events) ==
    IF events = <<>> THEN <<>>
    ELSE IF Head(events).ev = "append"
         THEN LedgerLine(Head(events).job) \o AppendedBy(Tail(events))
         ELSE AppendedBy(Tail(events))

ContentAtRead == SubSeq(doneTxt, 1, Len(doneTxt) - Len(AppendedBy(log)))

\* The part of C21 that holds: the list the scan tests against is the one
\* parsed from done.txt at the scan's own read, and the folders are those
\* of the scan's own os.listdir.
ScanReadsAfresh ==
    InScan =>
        /\ done_folders = ParseLedger(ContentAtRead)
        /\ Range(folders) \subseteq dirs
        /\ Processed \subseteq { f \in Range(folders) : NotDone(f, done_folders) }

\* Index of a folder in the list of the scan (listdir has no duplicates).
IndexOf(f) == CHOOSE j \in 1..Len(folders) : folders[j] = f

\* C22 (sequential processing): in a scan, text_to_audio for a job is called
\* either first or directly after the append for the job before it; the jobs
\* are taken in the order of os.listdir; and the scan reaches its sleep only
\* when every folder of the list was processed or found in done_folders.
C22_Sequential ==
    /\ \A k \in 2..Len(log) :
          log[k].ev = "synth" =>
              (log[k-1].ev = "append" /\ log[k-1].job # log[k].job)
    /\ InScan =>
          \A k1, k2 \in 1..Len(log) :
              (k1 < k2 /\ log[k1].ev = "synth" /\ log[k2].ev = "synth")
                  => IndexOf(log[k1].job) < IndexOf(log[k2].job)
    /\ pc = "sleep" =>
          \A j \in 1..Len(folders) :
              folders[j] \in Processed \/ ~NotDone(folders[j], done_folders)

\* A scan has processed two jobs, one after the other, and sleeps.
C22_Witness == pc = "sleep" /\ Cardinality(Processed) = 2

\* C23 (the loop never stops by itself): whenever the worker has gone on from
\* Synthesis to Assembly or to the append for a job, with nobody killing it,
\* it comes to the start of a next scan.
C23_NextScanStarts ==
    (pc \in {"create_reel", "ffmpeg", "record"}) ~> (pc = "read_ledger")

\* How often the scan has logged the event for the job.
Count(ev, job) == Cardinality({ k \in 1..Len(log) : log[k] = Event(ev, job) })

\* C24 (no retry inside a scan): in one scan text_to_speech_file is called at
\* most once and ffmpeg is started at most once for each job.
C24_NoRetryInScan ==
    \A id \in Ids : Count("synth", id) <= 1 /\ Count("asm", id) <= 1

\* The provider raised for a job: it was called once, and the worker ended.
C24_Witness ==
    /\ pc = "dead"
    /\ cause.why = "synthesis"
    /\ Count("synth", cause.job) = 1
    /\ Count("synth_ok", cause.job) = 0

\* The worker is started again after it was killed inside a stage.
RestartAfterInterrupt == pc = "dead" /\ pc' = "read_ledger" /\ cause.why = "interrupted"

\* C25 (abandoned job is retried): when the worker is started again after it
\* was killed inside a stage of a job, that job's folder is there and the
\* first scan's membership test finds it not done, so it is processed again.
C25_AbandonedJobRetried ==
    [][ RestartAfterInterrupt =>
            (cause.job \in dirs /\ NotDone(cause.job, ParseLedger(doneTxt'))) ]_vars

\* The handler is at work on a request that stores files in the folder and
\* has not written all of it yet.
HalfWritten(f) ==
    /\ req.phase \in {"files", "desc", "manifest"}
    /\ req.rec_id = f
    /\ InputFiles(req.files) # <<>>

\* The worker's step calls the provider for the current folder.
SynthesisStarts == pc = "text_to_audio" /\ Len(log') > Len(log)

\* C26 (no half-written upload is processed): the worker never calls the
\* provider for a folder while the handler is still writing that folder.
C26_UploadCompleteAtSynthesis ==
    [][ SynthesisStarts => ~HalfWritten(folder) ]_vars

\* C27 (recovery after a torn write): when done.txt ends in a line without
\* "\n" and an append for a job completes, the membership test finds that
\* job afterwards.
C27_RecordAfterTornLine ==
    [][ (AppendStep /\ TruncatedTail(doneTxt) # <<>>)
            => ~NotDone(log'[Len(log')].job, ParseLedger(doneTxt')) ]_vars

\* An attempt at the job failed: the worker stopped at it.
AttemptFailed(id) == pc = "dead" /\ cause.job = id

\* C28 (no starvation): with the worker started again whenever it stops,
\* every job folder is at some time recorded in done.txt, unless an attempt
\* at that job itself fails.
C28_NoStarvation ==
    \A id \in Ids :
        (id \in dirs) ~> (id \in LedgerEntries(doneTxt) \/ AttemptFailed(id))

\* The entries of a manifest are pairwise different.
NoDuplicates(entries) ==
    \A k1, k2 \in 1..Len(entries) : k1 # k2 => entries[k1] # entries[k2]

\* C29 (manifest matches the stored images): when no request is being
\* handled, input.txt of every folder has exactly one entry for each image
\* file stored in the folder.
C29_ManifestMatchesImages ==
    req = NoReq =>
        \A id \in dirs :
            NoDuplicates(inputTxt[id]) /\ Range(inputTxt[id]) = images[id]

\* C30 (ledger frame): a step changes done.txt only when the worker is at the
\* append for the current folder, directly after ffmpeg exited with success
\* for that folder, and what it adds is the folder's line or a beginning of
\* it.
C30_LedgerFrame ==
    [][ doneTxt' # doneTxt =>
          /\ pc = "record"
          /\ log # <<>> /\ log[Len(log)] = Event("asm_ok", folder)
          /\ reels[folder] = "full"
          /\ \E n \in 1..Len(LedgerLine(folder)) :
                doneTxt' = doneTxt \o SubSeq(LedgerLine(folder), 1, n) ]_vars

\* The append for a second job has just completed, after uploads, reads of
\* done.txt, listings and both stages had their turn.
C30_Witness ==
    /\ pc = "for"
    /\ log # <<>> /\ log[Len(log)].ev = "append"
    /\ Cardinality(recorded) = 2

====
